---- MODULE Spec2Model ----
(***************************************************************************)
(* The point-robot environment family of rlkit/envs/point_robot.py.        *)
(*                                                                         *)
(* Lengths are fixed-point numbers in tenths (1.0 is One = 10), so every   *)
(* threshold of the source (0.2, 0.3, 0.5, 0.8, 5) is an integer.  A       *)
(* reward is kept exactly, as  off - SUM sqrt(roots[i])  (all in tenths):  *)
(* the comparisons of the source on square roots are decided on the        *)
(* squares, and two rewards are compared as the sums they were built as.   *)
(* Floating-point rounding is not modelled; the dtype of the numpy         *)
(* position array (int64 after reset_model, float64 after adding a float   *)
(* action) is, because an in-place write into an int64 array truncates.    *)
(***************************************************************************)
EXTENDS Integers, Sequences, FiniteSets, TLC

VARIABLES
    pc,          \* "uninit" | "ready" | "failed" (the constructor raised)
    variant,     \* the registered name of the class
    randomize_tasks, \* the constructor's randomize_tasks argument
    goals,       \* self.goals
    goal,        \* self._goal
    goal_radius, \* self.goal_radius
    lava_cost,   \* self.lava_cost
    state,       \* self._state, <<x, y>>
    dtype,       \* dtype of the self._state array
    t,           \* steps taken since the last reset (the harness caps it)
    lastOp,      \* the last call: "none" | "construct" | "reset_task" | "reset" | "step"
    exc,         \* the exception the last call raised, or "none"
    argIdx,      \* the idx argument of the last reset_task call
    goals0,      \* self.goals as it was when the constructor returned
    obs,         \* the observation the last call returned
    reward,      \* the reward the last step returned
    done,        \* the done flag the last step returned
    info,        \* the info mapping the last step returned
    dense,       \* the dense reward the last step computed (the local `reward` of the base transition)
    moveKind,    \* the branch the last step took: "none" | "add" | "teleport"
    additive,    \* whether the last step left the position at old position + action
    lastZero     \* whether the last step's action was the zero vector

vars == <<pc, variant, randomize_tasks, goals, goal, goal_radius, lava_cost, state, dtype, t,
          lastOp, exc, argIdx, goals0, obs, reward, done, info,
          dense, moveKind, additive, lastZero>>

----------------------------------------------------------------------------
(* Bounds and input sets *)

\* The harness ends an episode after this many steps.
MaxSteps == 3

\* 1.0 in tenths.
One == 10

Variants == {"point-robot", "sparse-point-robot", "sparse-point-robot-noise",
             "sparse-point-robot-random", "sparse-lava-point",
             "sparse-point-robot-sub"}

SparseVariants == Variants \ {"point-robot"}

HazardVariants == {"sparse-point-robot-random", "sparse-lava-point"}

\* The variants whose step() ends with `reward = sparse_reward`.
DocDenseVariants == {"sparse-point-robot", "sparse-point-robot-noise",
                     "sparse-point-robot-random", "sparse-lava-point"}

\* n_tasks arguments tried.
TaskCounts == {0, 1, 2}

\* goal_radius arguments tried (0.2 and 0.3, the defaults of the source).
GoalRadii == {2, 3}

\* Actions tried: displacement in tenths and the dtype of the array passed.
Act(dx, dy, dt) == [d |-> <<dx, dy>>, dtype |-> dt]

Actions == {Act(0, 0, "float64"), Act(0, 1, "float64"), Act(0, -1, "float64"),
            Act(1, 0, "float64"), Act(8, 0, "float64"), Act(0, -7, "float64"),
            Act(0, -10, "float64"), Act(0, 0, "int64"), Act(0, -10, "int64")}

\* Values of np.random.uniform(-1, 1, size=(2,)) tried for the base reset.
ResetPoints == {<<0, 0>>, <<7, 2>>}

\* Values of np.random.rand() tried, in tenths: 0, 0.4 and 0.9.
RandDraws == {0, 4, 9}

\* Angles tried for the teleport, as <<cos, sin>> in units of 1/AngleDen.
AngleDen == 50

Angles == {<<50, 0>>, <<30, 40>>, <<14, 48>>, <<0, -50>>}

----------------------------------------------------------------------------
(* Arithmetic *)

\* Integer division truncating toward zero (a float stored into an int64 array).
TDiv(a, b) == IF a >= 0 THEN a \div b ELSE -((-a) \div b)

Sq(a) == a * a

DistSq(p, q) == Sq(p[1] - q[1]) + Sq(p[2] - q[2])

\* A real number off - SUM sqrt(roots[i]).
Real(off, roots) == [off |-> off, roots |-> roots]

Zero == Real(0, <<>>)

\* -(D ** 0.5); the root of 0 is 0.
NegSqrt(D) == IF D = 0 THEN Zero ELSE Real(0, <<D>>)

Plus(r, s) == Real(r.off + s.off, r.roots \o s.roots)

AddOff(r, k) == Real(r.off + k, r.roots)

\* r >= -k for r with at most one root: sqrt(D) <= off + k.
GeqNeg(r, k) ==
    IF r.roots = <<>> THEN r.off >= -k
    ELSE r.off + k >= 0 /\ r.roots[1] <= Sq(r.off + k)

\* D ** 0.5 < k
SqrtLt(D, k) == k > 0 /\ D < Sq(k)

\* D ** 0.5 > k
SqrtGt(D, k) == k < 0 \/ D > Sq(k)

----------------------------------------------------------------------------
(* Constants of the source *)

\* `y -= -1`: the hazard point is (0, -1).
HazardPoint == <<0, -One>>

\* `dist<0.3` and `>0.3`
HazardRadius == 3

\* `5 * np.cos(angle)`
TeleportRadius == 50

\* `dist<0.5` of the sub variant
SubRadius == 5

\* `(0.8-dist)` of the sub variant
SubBonus == 8

\* lava_cost=5
LavaCost == 50

\* lava_space: low (-0.1, 0.1), high (0.1, inf)
LavaLowX == -1

LavaHighX == 1

LavaLowY == 1

----------------------------------------------------------------------------
(* Task sets *)

\* The hand-coded goals before `g / 10.`
HandCoded == << <<10, -10>>, <<10, 10>>, <<-10, 10>>, <<-10, -10>>, <<0, 0>>,
                <<7, 2>>, <<0, 4>>, <<-6, 9>> >>

\* goals = [g / 10. for g in goals], in tenths
FixedGoals ==
    [i \in 1..Len(HandCoded) |->
        <<TDiv(HandCoded[i][1] * One, 10), TDiv(HandCoded[i][2] * One, 10)>>]

\* The first draws of np.random.uniform(-1., 1.) after np.random.seed(1337),
\* as pairs, rounded to tenths: (-0.476, -0.683), (-0.444, -0.081), (-0.358, 0.037).
SeededUniform == << <<-5, -7>>, <<-4, -1>>, <<-4, 0>> >>

\* [[uniform, uniform] for _ in range(n_tasks)]
UniformGoals(n) == SubSeq(SeededUniform, 1, n)

\* radius * (cos, sin) of np.linspace(0, np.pi, num=n), for n <= 3.
HalfCircle(n) ==
    CASE n = 0 -> <<>>
      [] n = 1 -> << <<One, 0>> >>
      [] n = 2 -> << <<One, 0>>, <<-One, 0>> >>
      [] n = 3 -> << <<One, 0>>, <<0, One>>, <<-One, 0>> >>

\* The permutation np.random.shuffle applies to n rows right after
\* np.random.seed(1337): row i of the result is row ShufflePerm(n)[i].
ShufflePerm(n) ==
    CASE n = 0 -> <<>>
      [] n = 1 -> <<1>>
      [] n = 2 -> <<1, 2>>
      [] n = 3 -> <<3, 1, 2>>

\* np.stack, np.random.shuffle, tolist
HalfCircleGoals(n) == [i \in 1..n |-> HalfCircle(n)[ShufflePerm(n)[i]]]

\* Mutant of PyIndexOk: negative indices are refused.
PyIndexOk_NonNegative(idx, n) == 0 <= idx /\ idx < n

\* Whether seq[idx] of a Python list of length n does not raise IndexError.
PyIndexOk(idx, n) == -n <= idx /\ idx < n

\* Mutant of PyIndex: the entry before the one asked for, self.goals[idx - 1].
PyIndex_OffByOne(seq, idx) == seq[((idx - 1) % Len(seq)) + 1]

\* seq[idx] of a Python list (1-based here), for an idx that does not raise.
PyIndex(seq, idx) == seq[IF idx < 0 THEN Len(seq) + idx + 1 ELSE idx + 1]

\* get_all_task_idx
get_all_task_idx(gs) == 0..(Len(gs) - 1)

----------------------------------------------------------------------------
(* Methods *)

\* reset_model: the state and the dtype of its array; p is the base class's draw.
reset_model(v, p) ==
    IF v = "point-robot" THEN [state |-> p, dtype |-> "float64"]
    ELSE [state |-> <<0, 0>>, dtype |-> "int64"]

\* noise_variance = 2
NoiseVariance == 2

\* `(x**2+(y+1)**2)**0.5>0.3`
FarFromHazard(st) == SqrtGt(DistSq(st, HazardPoint), HazardRadius)

\* np.random.rand()*noise_variance*2, for the draw u of np.random.rand()
Noise(u) == u * NoiseVariance * 2

\* Mutant of get_obs: the noise is zeroed near the hazard point, not far from it.
get_obs_NoiseFar(v, st, u) ==
    IF v = "sparse-point-robot-noise"
    THEN IF ~FarFromHazard(st)
         THEN <<st[1], st[2], 0>>
         ELSE <<st[1], st[2], Noise(u)>>
    ELSE <<st[1], st[2]>>

\* _get_obs; u is the noise variant's draw of np.random.rand().
get_obs(v, st, u) ==
    IF v = "sparse-point-robot-noise"
    THEN IF FarFromHazard(st)
         THEN <<st[1], st[2], 0>>
         ELSE <<st[1], st[2], Noise(u)>>
    ELSE <<st[1], st[2]>>

\* The draws reset_model of class v can make.
ResetDraws(v) == IF v = "point-robot" THEN ResetPoints ELSE {<<0, 0>>}

\* The draws that can show in the observation of position st.
ObsDraws(v, st) == {u \in RandDraws : get_obs(v, st, u) # get_obs(v, st, 0)} \cup {0}

\* dtype of self._state + action
AddDtype(dt, adt) == IF dt = "int64" /\ adt = "int64" THEN "int64" ELSE "float64"

\* A value stored in place into an array of dtype dt.
StoreInto(dt, x) == IF dt = "int64" THEN TDiv(x, One) * One ELSE x

\* Mutant of StepDone: the episode ends on the goal.
StepDone_AtGoal(ns, g) == ns = g

\* `done = False`
StepDone(ns, g) == FALSE

EmptyDict == [k \in {} |-> Zero]

\* d.update({k: x})
DictUpdate(d, k, x) == [j \in (DOMAIN d) \cup {k} |-> IF j = k THEN x ELSE d[j]]

\* PointEnv.step
PointStep(st, dt, g, a) ==
    LET ns == <<st[1] + a.d[1], st[2] + a.d[2]>>
    IN  [state |-> ns, dtype |-> AddDtype(dt, a.dtype),
         reward |-> NegSqrt(DistSq(ns, g)), done |-> StepDone(ns, g),
         info |-> EmptyDict, kind |-> "add"]

\* Mutant of Teleport: the factor 5 is missing.
Teleport_UnitCircle(dt, ang) ==
    <<StoreInto(dt, TDiv(One * ang[1], AngleDen)),
      StoreInto(dt, TDiv(One * ang[2], AngleDen))>>

\* The position the teleport writes into self._state[0], self._state[1].
Teleport(dt, ang) ==
    <<StoreInto(dt, TDiv(TeleportRadius * ang[1], AngleDen)),
      StoreInto(dt, TDiv(TeleportRadius * ang[2], AngleDen))>>

\* Mutant of InHazard: `dist<=0.3`.
InHazard_Inclusive(st) == DistSq(st, HazardPoint) <= Sq(HazardRadius)

\* `dist<0.3` of inner_step
InHazard(st) == SqrtLt(DistSq(st, HazardPoint), HazardRadius)

\* The angles whose draw inner_step uses at position st.
AngleDraws(st) == IF InHazard(st) THEN Angles ELSE {<<AngleDen, 0>>}

\* inner_step of the two hazard-redirect classes
inner_step(st, dt, g, a, ang) ==
    IF InHazard(st)
    THEN LET ns == Teleport(dt, ang)
         IN  [state |-> ns, dtype |-> dt,
              reward |-> NegSqrt(DistSq(ns, g)), done |-> StepDone(ns, g),
              info |-> EmptyDict, kind |-> "teleport"]
    ELSE PointStep(st, dt, g, a)

\* (r >= -self.goal_radius).astype(np.float32)
Mask(r, gr) == IF GeqNeg(r, gr) THEN 1 ELSE 0

\* r * mask
Times(r, m) == IF m = 1 THEN r ELSE Zero

\* Mutant of sparsify_rewards: a clamp at -goal_radius instead of a mask.
sparsify_rewards_Clamp(r, gr) == IF GeqNeg(r, gr) THEN r ELSE Real(-gr, <<>>)

\* sparsify_rewards
sparsify_rewards(r, gr) == Times(r, Mask(r, gr))

\* sparse_reward = sparsify_rewards(reward); if reward >= -goal_radius: sparse_reward += 1
SparseBonus(r, gr) ==
    IF GeqNeg(r, gr) THEN AddOff(sparsify_rewards(r, gr), One)
    ELSE sparsify_rewards(r, gr)

\* self.lava_space.contains(ob)
LavaContains(ob) == ob[1] >= LavaLowX /\ ob[1] <= LavaHighX /\ ob[2] >= LavaLowY

\* The sparse reward SparseLavaPointEnv.step stores.
LavaSparse(r, gr, lc, ob) ==
    IF LavaContains(ob) THEN AddOff(SparseBonus(r, gr), -lc) ELSE SparseBonus(r, gr)

\* (0.8 - dist) of the sub variant, dist to (0, -1)
SubTerm(st) == AddOff(NegSqrt(DistSq(st, HazardPoint)), SubBonus)

SubNear(st) == SqrtLt(DistSq(st, HazardPoint), SubRadius)

\* The sparse reward SparsePointEnvSub.step stores.
SubSparse(r, gr, st) ==
    IF SubNear(st) THEN Plus(SparseBonus(r, gr), SubTerm(st)) ELSE SparseBonus(r, gr)

\* The reward SparsePointEnvSub.step returns.
SubReward(r, gr, st) ==
    IF SubNear(st) THEN SubTerm(st)
    ELSE IF GeqNeg(r, gr) THEN AddOff(r, One) ELSE r

----------------------------------------------------------------------------
(* The environment as a state machine *)

Init ==
    /\ pc = "uninit"
    /\ variant = "none"
    /\ randomize_tasks = FALSE
    /\ goals = <<>>
    /\ goal = <<0, 0>>
    /\ goal_radius = 0
    /\ lava_cost = 0
    /\ state = <<0, 0>>
    /\ dtype = "int64"
    /\ t = 0
    /\ lastOp = "none"
    /\ exc = "none"
    /\ argIdx = 0
    /\ goals0 = <<>>
    /\ obs = <<0, 0>>
    /\ reward = Zero
    /\ done = FALSE
    /\ info = EmptyDict
    /\ dense = Zero
    /\ moveKind = "none"
    /\ additive = FALSE
    /\ lastZero = FALSE

\* What a call that is not a step leaves in the records of the last step.
NoStep ==
    /\ reward' = Zero
    /\ done' = FALSE
    /\ info' = EmptyDict
    /\ dense' = Zero
    /\ moveKind' = "none"
    /\ additive' = FALSE
    /\ lastZero' = FALSE
    /\ t' = 0

\* The constructor raised exception e; gs is self.goals at that point.
ConstructRaises(v, r, e, gs, gr) ==
    /\ pc' = "failed"
    /\ variant' = v
    /\ randomize_tasks' = r
    /\ exc' = e
    /\ goals' = gs
    /\ goal_radius' = gr
    /\ lastOp' = "construct"
    /\ NoStep
    /\ UNCHANGED <<goal, lava_cost, state, dtype, argIdx, goals0, obs>>

\* The constructor returned with self.goals = gs after its last reset_task(0).
ConstructReturns(v, r, gs, gr, lc, p, u) ==
    /\ pc' = "ready"
    /\ variant' = v
    /\ randomize_tasks' = r
    /\ exc' = "none"
    /\ goals' = gs
    /\ goals0' = gs
    /\ goal' = PyIndex(gs, 0)
    /\ goal_radius' = gr
    /\ lava_cost' = lc
    /\ state' = reset_model(v, p).state
    /\ dtype' = reset_model(v, p).dtype
    /\ obs' = get_obs(v, reset_model(v, p).state, u)
    /\ lastOp' = "construct"
    /\ argIdx' = 0
    /\ NoStep

\* PointEnv.__init__(randomize_tasks=r, n_tasks): the goals it stores.
PointInitGoals(r, n_tasks) ==
    IF r THEN UniformGoals(n_tasks) ELSE FixedGoals

\* PointEnv(randomize_tasks, n_tasks)
ConstructPoint(r, n_tasks, p) ==
    /\ pc = "uninit"
    /\ LET gs == PointInitGoals(r, n_tasks)
       IN  IF PyIndexOk(0, Len(gs))
           THEN ConstructReturns("point-robot", r, gs, 0, 0, p, 0)
           ELSE ConstructRaises("point-robot", r, "IndexError", gs, 0)

\* The constructor of a sparse class v: super().__init__, then the local
\* `goals`, which is bound only under `if randomize_tasks:`.
ConstructSparse(v, r, n_tasks, gr, u) ==
    /\ pc = "uninit"
    /\ v \in SparseVariants
    /\ LET gs == PointInitGoals(r, n_tasks)
           lc == IF v = "sparse-lava-point" THEN LavaCost ELSE 0
       IN  IF ~PyIndexOk(0, Len(gs))
           THEN ConstructRaises(v, r, "IndexError", gs, 0)
           ELSE IF ~r
           THEN ConstructRaises(v, r, "UnboundLocalError", gs, gr)
           ELSE ConstructReturns(v, r, HalfCircleGoals(n_tasks), gr, lc, <<0, 0>>, u)

\* reset()
Reset(p, u) ==
    /\ pc = "ready"
    /\ p \in ResetDraws(variant)
    /\ u \in ObsDraws(variant, p)
    /\ state' = reset_model(variant, p).state
    /\ dtype' = reset_model(variant, p).dtype
    /\ obs' = get_obs(variant, reset_model(variant, p).state, u)
    /\ lastOp' = "reset"
    /\ exc' = "none"
    /\ argIdx' = 0
    /\ NoStep
    /\ UNCHANGED <<pc, variant, randomize_tasks, goals, goal, goal_radius, lava_cost, goals0>>

\* reset_task(idx)
ResetTask(idx, p, u) ==
    /\ pc = "ready"
    /\ p \in ResetDraws(variant)
    /\ u \in ObsDraws(variant, p)
    /\ lastOp' = "reset_task"
    /\ argIdx' = idx
    /\ IF PyIndexOk(idx, Len(goals))
       THEN /\ goal' = PyIndex(goals, idx)
            /\ exc' = "none"
            /\ state' = reset_model(variant, p).state
            /\ dtype' = reset_model(variant, p).dtype
            /\ obs' = get_obs(variant, reset_model(variant, p).state, u)
            /\ NoStep
       ELSE /\ exc' = "IndexError"
            /\ UNCHANGED <<goal, state, dtype, obs, t, reward, done, info,
                           dense, moveKind, additive, lastZero>>
    /\ UNCHANGED <<pc, variant, randomize_tasks, goals, goal_radius, lava_cost, goals0>>

\* What every step() does with the result res of its transition, the reward
\* rew and the info mapping inf it returns; u is the observation's draw.
Returns(res, rew, inf, a, u) ==
    /\ state' = res.state
    /\ dtype' = res.dtype
    /\ obs' = get_obs(variant, res.state, u)
    /\ reward' = rew
    /\ done' = res.done
    /\ info' = inf
    /\ dense' = res.reward
    /\ moveKind' = res.kind
    /\ additive' = (res.state = <<state[1] + a.d[1], state[2] + a.d[2]>>)
    /\ lastZero' = (a.d = <<0, 0>>)
    /\ t' = t + 1
    /\ lastOp' = "step"
    /\ exc' = "none"
    /\ argIdx' = 0
    /\ UNCHANGED <<pc, variant, randomize_tasks, goals, goal, goal_radius, lava_cost, goals0>>

\* PointEnv.step
StepPoint(a) ==
    /\ pc = "ready" /\ variant = "point-robot" /\ t < MaxSteps
    /\ LET res == PointStep(state, dtype, goal, a)
       IN  Returns(res, res.reward, res.info, a, 0)

\* step of 'sparse-point-robot' and 'sparse-point-robot-noise'
StepSparse(a, u) ==
    /\ pc = "ready" /\ t < MaxSteps
    /\ variant \in {"sparse-point-robot", "sparse-point-robot-noise"}
    /\ LET res == PointStep(state, dtype, goal, a)
           sparse_reward == SparseBonus(res.reward, goal_radius)
       IN  /\ u \in ObsDraws(variant, res.state)
           /\ Returns(res, sparse_reward,
                   DictUpdate(res.info, "sparse_reward", sparse_reward), a, u)

\* step of 'sparse-point-robot-random'
StepRandom(a, ang) ==
    /\ pc = "ready" /\ t < MaxSteps
    /\ ang \in AngleDraws(state)
    /\ variant = "sparse-point-robot-random"
    /\ LET res == inner_step(state, dtype, goal, a, ang)
           sparse_reward == SparseBonus(res.reward, goal_radius)
       IN  Returns(res, sparse_reward,
                   DictUpdate(res.info, "sparse_reward", sparse_reward), a, 0)

\* SparseLavaPointEnv.step
StepLava(a, ang) ==
    /\ pc = "ready" /\ t < MaxSteps
    /\ ang \in AngleDraws(state)
    /\ variant = "sparse-lava-point"
    /\ LET res == inner_step(state, dtype, goal, a, ang)
           sparse_reward == LavaSparse(res.reward, goal_radius, lava_cost,
                                       get_obs(variant, res.state, 0))
       IN  Returns(res, sparse_reward,
                   DictUpdate(res.info, "sparse_reward", sparse_reward), a, 0)

\* SparsePointEnvSub.step
StepSub(a) ==
    /\ pc = "ready" /\ t < MaxSteps
    /\ variant = "sparse-point-robot-sub"
    /\ LET res == PointStep(state, dtype, goal, a)
       IN  Returns(res, SubReward(res.reward, goal_radius, res.state),
                   DictUpdate(res.info, "sparse_reward",
                              SubSparse(res.reward, goal_radius, res.state)), a, 0)

\* reset_task arguments tried: every index Python accepts for the task set,
\* and the first that it does not on either side.
IdxChoices == (-(Len(goals) + 1))..Len(goals)

Next ==
    \/ \E r \in BOOLEAN, n \in TaskCounts, p \in ResetPoints : ConstructPoint(r, n, p)
    \/ \E v \in SparseVariants, r \in BOOLEAN, n \in TaskCounts, gr \in GoalRadii :
          \E u \in ObsDraws(v, <<0, 0>>) : ConstructSparse(v, r, n, gr, u)
    \/ \E p \in ResetPoints, u \in RandDraws : Reset(p, u)
    \/ \E idx \in IdxChoices, p \in ResetPoints, u \in RandDraws : ResetTask(idx, p, u)
    \/ \E a \in Actions : StepPoint(a)
    \/ \E a \in Actions, u \in RandDraws : StepSparse(a, u)
    \/ \E a \in Actions, ang \in Angles : StepRandom(a, ang)
    \/ \E a \in Actions, ang \in Angles : StepLava(a, ang)
    \/ \E a \in Actions : StepSub(a)

Spec == Init /\ [][Next]_vars

----------------------------------------------------------------------------
(* Properties *)

\* The 8 fixed points of the spec, in tenths.
ClaimedFixedGoals == << <<10, -10>>, <<10, 10>>, <<-10, 10>>, <<-10, -10>>,
                        <<0, 0>>, <<7, 2>>, <<0, 4>>, <<-6, 9>> >>

\* Whether position st is at distance below 0.3 from (0, -1).
NearHazardPoint(st) == Sq(st[1]) + Sq(st[2] + 10) < 9

\* Whether the last call was a reset that succeeded (the agent was placed anew).
JustReset ==
    \/ lastOp \in {"construct", "reset"}
    \/ lastOp = "reset_task" /\ exc = "none"

\* C1: for every variant and every n_tasks, construction with
\* randomize_tasks=false succeeds and leaves the task set equal to the 8 fixed
\* points, in order.  The sparse classes raise UnboundLocalError instead.
C1_FixedGoalsAlways ==
    (lastOp = "construct" /\ ~randomize_tasks) =>
        (pc = "ready" /\ exc = "none" /\ goals = ClaimedFixedGoals)

\* C2 as stated: reset_task(idx) raises IndexError exactly when idx is not in
\* get_all_task_idx().
C2_Original ==
    lastOp = "reset_task" =>
        ((exc = "IndexError") <=> (argIdx \notin get_all_task_idx(goals)))

\* C2 amended: reset_task(idx) raises IndexError exactly when idx < -len or
\* idx >= len of the task set; otherwise it succeeds, selects the entry at
\* idx modulo len (so every idx of get_all_task_idx() selects entry idx) and
\* starts a new episode.
C2_ResetTaskRange ==
    lastOp = "reset_task" =>
        /\ (exc = "IndexError") <=> (argIdx < -Len(goals) \/ argIdx >= Len(goals))
        /\ exc \in {"none", "IndexError"}
        /\ exc = "none" => (goal = goals[(argIdx % Len(goals)) + 1] /\ t = 0)

\* C2 witness: a negative index was accepted and selected the last goal.
C2_Witness ==
    /\ lastOp = "reset_task" /\ argIdx = -1 /\ exc = "none"
    /\ Len(goals) > 1 /\ goal = goals[Len(goals)] /\ goal # goals[1]

\* C3: every step returns done = false and leaves the environment ready.
C3_NeverDone == lastOp = "step" => (done = FALSE /\ pc = "ready" /\ exc = "none")

\* C3 witness: a step ended exactly on the active goal and still was not done.
C3_Witness == lastOp = "step" /\ state = goal /\ dense = Zero /\ done = FALSE

\* C4 as stated: a step with the zero action leaves the agent state unchanged
\* and, following another step, returns the same reward.
C4_Original ==
    [][(lastOp' = "step" /\ lastZero') =>
          (state' = state /\ (lastOp = "step" => reward' = reward))]_vars

\* C4 amended: a step with the zero action leaves the agent state unchanged and
\* returns the same reward as the step before it, except in the
\* hazard-redirect variants from a state at distance below 0.3 from (0, -1).
C4_ZeroActionFixed ==
    [][(/\ lastOp' = "step" /\ lastZero'
        /\ ~(variant \in HazardVariants /\ NearHazardPoint(state))) =>
          (state' = state /\ (lastOp = "step" => reward' = reward))]_vars

\* C4 witness: a third step, taken with the zero action in a hazard-redirect
\* variant outside the hazard, returned a reward that is not 0.
C4_Witness ==
    /\ lastOp = "step" /\ lastZero /\ t = 3 /\ variant \in HazardVariants
    /\ additive /\ reward # Zero /\ ~NearHazardPoint(state)

\* C5: in the hazard-redirect variants a step from a state at distance below
\* 0.3 from (0, -1) leaves the agent at distance exactly 5 from the origin and
\* not at state + action; a step from any other state leaves it at
\* state + action.
C5_HazardRedirect ==
    [][(lastOp' = "step" /\ variant \in HazardVariants) =>
          IF NearHazardPoint(state)
          THEN Sq(state'[1]) + Sq(state'[2]) = Sq(50) /\ ~additive'
          ELSE additive']_vars

\* C6 as stated: the third scalar of the noisy observation is a value in
\* [0, 4) when the position is farther than 0.3 from (0, -1), and 0 otherwise.
C6_Original ==
    (pc = "ready" /\ variant = "sparse-point-robot-noise") =>
        /\ Len(obs) = 3 /\ obs[1] = state[1] /\ obs[2] = state[2]
        /\ IF Sq(state[1]) + Sq(state[2] + 10) > 9
           THEN obs[3] >= 0 /\ obs[3] < 40
           ELSE obs[3] = 0

\* C6 amended: the third scalar of the noisy observation is exactly 0 when the
\* position is farther than 0.3 from (0, -1), and a value in [0, 4) otherwise.
C6_NoiseOnlyNearHazard ==
    (pc = "ready" /\ variant = "sparse-point-robot-noise") =>
        /\ Len(obs) = 3 /\ obs[1] = state[1] /\ obs[2] = state[2]
        /\ IF Sq(state[1]) + Sq(state[2] + 10) > 9
           THEN obs[3] = 0
           ELSE obs[3] >= 0 /\ obs[3] < 40

\* C6 witness: a step returned a noisy third scalar at distance 0.3 from (0, -1).
C6_Witness ==
    /\ variant = "sparse-point-robot-noise" /\ lastOp = "step"
    /\ state = <<0, -7>> /\ obs[3] = 36

\* The sparse reward of the spec before any variant-specific term: d + 1 when
\* the dense reward d is >= -goal_radius, and 0 otherwise.
C7_Base == IF GeqNeg(dense, goal_radius) THEN AddOff(dense, One) ELSE Zero

\* The variant-specific term: the lava penalty or the secondary bonus.
C7_VariantTerm ==
    CASE variant = "sparse-lava-point" /\ LavaContains(obs) -> Real(-lava_cost, <<>>)
      [] variant = "sparse-point-robot-sub" /\ SubNear(state) -> SubTerm(state)
      [] OTHER -> Zero

\* C7: in every sparse variant the info mapping of every step has the key
\* 'sparse_reward', whose value is, before the variant-specific hazard penalty
\* or secondary bonus, d + 1 when the dense reward d >= -goal_radius and 0
\* when d < -goal_radius.
C7_SparseRewardInInfo ==
    (lastOp = "step" /\ variant \in SparseVariants) =>
        /\ DOMAIN info = {"sparse_reward"}
        /\ info["sparse_reward"] = Plus(C7_Base, C7_VariantTerm)

\* C7 witness: a step ended at distance 0.2 from the goal with goal_radius 0.2
\* and stored -0.2 + 1 under 'sparse_reward'.
C7_Witness ==
    /\ lastOp = "step" /\ variant = "sparse-point-robot" /\ goal_radius = 2
    /\ dense = Real(0, <<4>>) /\ info["sparse_reward"] = Real(10, <<4>>)

\* C8: in the sparse variants whose docstring says so, step() returns the
\* dense reward.  The code returns the sparse reward.
C8_StepReturnsDense ==
    (lastOp = "step" /\ variant \in DocDenseVariants) => reward = dense

\* C9: after construction the task set never changes, reset and step leave the
\* active goal unchanged, and the active goal is the entry selected by the
\* most recent successful reset_task (entry 0 after construction).
C9_TaskSetFrozen ==
    /\ [](pc = "ready" => (goals = goals0 /\ Len(goals) > 0))
    /\ []((pc = "ready" /\ lastOp = "construct") => goal = goals[1])
    /\ [][pc = "ready" =>
            /\ goals' = goals
            /\ IF lastOp' = "reset_task" /\ exc' = "none"
               THEN goal' = goals[(argIdx' % Len(goals)) + 1]
               ELSE goal' = goal]_vars

\* C9 witness: after reset_task(1) a step teleported the agent, and the task
\* set and the selected goal are as before.
C9_Witness ==
    /\ lastOp = "step" /\ moveKind = "teleport" /\ Len(goals) = 2
    /\ goal = goals[2] /\ goal # goals[1] /\ goals = goals0

\* C10: in the hazard-redirect variants the step after a teleporting step and
\* the first step after a reset apply the action additively, because they
\* start at distance >= 0.3 from (0, -1).
C10_NoDoubleTeleport ==
    /\ []((pc = "ready" /\ variant \in HazardVariants
             /\ (moveKind = "teleport" \/ JustReset)) => ~NearHazardPoint(state))
    /\ [][(/\ lastOp' = "step" /\ variant \in HazardVariants
           /\ (moveKind = "teleport" \/ JustReset)) =>
             (moveKind' = "add" /\ additive')]_vars

\* C10 witness: an additive step with a nonzero action ended farther than 4
\* from the origin, where only a teleport leads.
C10_Witness ==
    /\ lastOp = "step" /\ variant \in HazardVariants /\ moveKind = "add"
    /\ additive /\ ~lastZero /\ Sq(state[1]) + Sq(state[2]) > Sq(40)

====
